---------------------------- MODULE Spec2Model ----------------------------
(***************************************************************************)
(* Chip-support core of the CC26x0: the sleep sequence of Cc26x0::sleep,   *)
(* the AUX domain controller (aux.rs), the interrupt router                *)
(* (Cc26x0::service_pending_interrupts) and the BLE advertiser (ble.rs).   *)
(*                                                                         *)
(* The kernel runs on one hardware thread: pc is the position of that      *)
(* thread, op the call it is in.  The hardware (the AUX power domain, the  *)
(* interrupt sources) and the host's power manager move on their own.      *)
(* log is the recording register bank: the effects of the current call,    *)
(* in program order, emptied when a call starts.                           *)
(***************************************************************************)
EXTENDS Integers, Sequences, FiniteSets, TLC

VARIABLES
    pc,          \* position of the thread
    op,          \* the call being run, or the last call run
    idx,         \* index of the next step of a straight-line sequence
    sleep_mode,  \* chip.rs:126, the local sleep_mode of sleep()
    clock,       \* aux.rs:81, the argument of activate_clock
    lowest,      \* what peripherals::M.lowest_sleep_mode() returns
    regs,        \* the memory-mapped registers the code of src/ writes
    gw,          \* state behind the AON / PRCM / VIMS gateways
    polls,       \* failed reads of PWR_STAT in the current busy-wait
    log,         \* effects of the current call, in program order
    pending,     \* NVIC: the pending interrupt lines
    enabled,     \* NVIC: the enabled interrupt lines
    raised,      \* interrupts raised so far (bounds the run)
    interrupt,   \* chip.rs:88, the line the NVIC yielded last
    atcall,      \* the lines that were pending when the service call started
    ble,         \* ble.rs: the static regions, and the radio core behind them
    req          \* ble.rs: the arguments of the advertising call

vars == <<pc, op, idx, sleep_mode, clock, lowest, regs, gw, polls, log,
          pending, enabled, raised, interrupt, atcall, ble, req>>

-----------------------------------------------------------------------------
(* Bounds of the model *)

\* registers are modelled RegWidth bits wide (every mask used fits)
RegWidth == 13
\* failed reads of PWR_STAT the thread makes before the hardware must answer
MaxPolls == 2
\* lowest_sleep_mode() returns a value in 0..MaxDepthInput
MaxDepthInput == 3
\* interrupts raised in one run
MaxRaised == 2
\* calls of the advertiser's operations over one behaviour
MaxCalls == 2

-----------------------------------------------------------------------------
(* Bit arithmetic on register values *)

BitsOf(v) == {k \in 0..(RegWidth - 1) : (v \div (2 ^ k)) % 2 = 1}

RECURSIVE FromBits(_)
FromBits(S) ==
    IF S = {} THEN 0
    ELSE LET k == CHOOSE x \in S : TRUE IN (2 ^ k) + FromBits(S \ {k})

BitOr(a, b) == FromBits(BitsOf(a) \cup BitsOf(b))
BitAnd(a, b) == FromBits(BitsOf(a) \cap BitsOf(b))
BitAndNot(a, b) == FromBits(BitsOf(a) \ BitsOf(b))

\* an entry of the log: a write of val to reg, a hook call, a barrier, a read
W(reg, val) == [reg |-> reg, val |-> val]

Last(s) == s[Len(s)]


-----------------------------------------------------------------------------
(* Program constants *)

\* chip.rs:24-28, enum SleepMode
DeepSleep == 0
Sleep == 1
Active == 2
\* chip.rs:48-50, bit offsets of the fields of the system control register
SLEEP_ON_EXIT_OFFSET == 1
SLEEP_DEEP_OFFSET == 2
SEVONPEND_OFFSET == 4
\* aux.rs:87 and aux.rs:90, the clock bits of MOD_CLK_EN0
MOD_CLK_OSC == 64
MOD_CLK_SEM == 1
\* aux.rs:148, the AUX-powered bit of PWR_STAT
PWR_STAT_AUX_ON == 2
\* aux.rs:120
AUX_CLK_POWER_DOWN_SRC == 6144

AuxClock == {"OscillatorControl", "Semaphores"}
PowerDomains == {"VIMS", "RFC", "CPU"}
\* sleep_mode outside a call of sleep()
NoMode == -1

-----------------------------------------------------------------------------
(* aux.rs: the AUX controller *)

\* aux.rs:137-143
wakeup_event(r, mode) ==
    [r EXCEPT !.aux_ctl = IF mode = "AllowSleep" THEN 0 ELSE 1]

\* power_status as it would be with the mask of bit 0 in place of bit 1
power_statusBit0(r) ==
    IF BitAnd(r.pwr_stat, 1) # 0 THEN "WakeUp" ELSE "AllowSleep"

\* aux.rs:145-153
power_status(r) ==
    IF BitAnd(r.pwr_stat, PWR_STAT_AUX_ON) # 0 THEN "WakeUp" ELSE "AllowSleep"

\* aux.rs:85-92, the bit activate_clock sets for a clock
ClockBit(k) == IF k = "OscillatorControl" THEN MOD_CLK_OSC ELSE MOD_CLK_SEM

\* the value written if the bit were stored without reading MOD_CLK_EN0
ClockEnableValueOverwrite(r, k) == ClockBit(k)

\* aux.rs:87 / aux.rs:90, the value activate_clock writes to MOD_CLK_EN0
ClockEnableValue(r, k) == BitOr(r.mod_clk_en0, ClockBit(k))

\* aux.rs:121-123, the value power_down writes to AUX_CLK
AuxClkValue(r) == BitAndNot(r.aux_clk, AUX_CLK_POWER_DOWN_SRC)

-----------------------------------------------------------------------------
(* The effect of one step of a straight-line sequence: the log entry e,    *)
(* the registers r and the gateway state g after it.                       *)

\* The AON, PRCM, RTC and VIMS gateways and the power manager's hooks: each
\* is one write, one barrier or one hook call.
GatewayEffect(step, g, m) ==
    CASE step = "before_sleep" ->
            [e |-> W("before_sleep", m), g |-> g]
      [] step = "after_wakeup" ->
            [e |-> W("after_wakeup", m), g |-> g]
      [] step = "ram_retention" ->
            [e |-> W("RAM_RETENTION", 1), g |-> [g EXCEPT !.ram_retention = TRUE]]
      [] step = "dma_crypto_off" ->
            [e |-> W("DMA_CRYPTO", 0), g |-> [g EXCEPT !.dma_crypto = FALSE]]
      [] step = "pd_off_VIMS" ->
            [e |-> W("PD_VIMS", 0), g |-> [g EXCEPT !.pd["VIMS"] = FALSE]]
      [] step = "pd_off_RFC" ->
            [e |-> W("PD_RFC", 0), g |-> [g EXCEPT !.pd["RFC"] = FALSE]]
      [] step = "pd_off_CPU" ->
            [e |-> W("PD_CPU", 0), g |-> [g EXCEPT !.pd["CPU"] = FALSE]]
      [] step = "pd_on_VIMS" ->
            [e |-> W("PD_VIMS", 1), g |-> [g EXCEPT !.pd["VIMS"] = TRUE]]
      [] step = "pd_on_CPU" ->
            [e |-> W("PD_CPU", 1), g |-> [g EXCEPT !.pd["CPU"] = TRUE]]
      [] step = "jtag_off" ->
            [e |-> W("JTAG", 0), g |-> [g EXCEPT !.jtag = FALSE]]
      [] step = "mcu_power_down" ->
            [e |-> W("MCU_POWER_DOWN", 1), g |-> [g EXCEPT !.mcu_pd = TRUE]]
      [] step = "rtc_sync" ->
            [e |-> W("RTC_SYNC", 0), g |-> g]
      [] step = "vims_off" ->
            [e |-> W("VIMS", 0), g |-> [g EXCEPT !.vims = FALSE]]
      [] step = "uldo_release" ->
            [e |-> W("ULDO", 0), g |-> [g EXCEPT !.uldo = FALSE]]

\* The register writes of Cc26x0::sleep itself.
ChipRegisterEffect(step, r) ==
    CASE step = "iolatch_freeze" ->                       \* chip.rs:134-135
            [e |-> W("IOLATCH", 0), r |-> [r EXCEPT !.iolatch = 0]]
      [] step = "iolatch_release" ->                      \* chip.rs:182-183
            [e |-> W("IOLATCH", 1), r |-> [r EXCEPT !.iolatch = 1]]
      [] step = "aux_allow_sleep" ->                      \* chip.rs:138
            [e |-> W("AUX_CTL", 0), r |-> wakeup_event(r, "AllowSleep")]
      [] step = "aux_wake_up" ->                          \* chip.rs:173
            [e |-> W("AUX_CTL", 1), r |-> wakeup_event(r, "WakeUp")]
      [] step = "scr_deep_set" ->                         \* chip.rs:162
            LET v == BitOr(r.scr, (2 ^ SLEEP_DEEP_OFFSET) + (2 ^ SEVONPEND_OFFSET))
            IN  [e |-> W("SCR", v), r |-> [r EXCEPT !.scr = v]]
      [] step = "scr_deep_clear" ->                       \* chip.rs:188
            LET v == BitAndNot(r.scr, 2 ^ SLEEP_DEEP_OFFSET)
            IN  [e |-> W("SCR", v), r |-> [r EXCEPT !.scr = v]]

ChipRegisterSteps ==
    {"iolatch_freeze", "iolatch_release", "aux_allow_sleep", "aux_wake_up",
     "scr_deep_set", "scr_deep_clear"}

\* The register writes of Aux::power_down.
AuxRegisterEffect(step, r) ==
    CASE step = "aux_clk_src_clear" ->                    \* aux.rs:121-123
            [e |-> W("AUX_CLK", AuxClkValue(r)),
             r |-> [r EXCEPT !.aux_clk = AuxClkValue(r)]]
      [] step = "aux_cfg_clear" ->                        \* aux.rs:126
            [e |-> W("AUX_CFG", 0), r |-> [r EXCEPT !.aux_cfg = 0]]
      [] step = "aux_power_down_allow_sleep" ->           \* aux.rs:128
            [e |-> W("AUX_CTL", 0), r |-> wakeup_event(r, "AllowSleep")]
      [] step = "pwr_off_req" ->                          \* aux.rs:131
            [e |-> W("PWR_OFF_REQ", 1), r |-> [r EXCEPT !.pwr_off_req = 1]]
      [] step = "mcu_bus_disconnect" ->                   \* aux.rs:132
            [e |-> W("MCU_BUS_CTL", 1), r |-> [r EXCEPT !.mcu_bus_ctl = 1]]

AuxRegisterSteps ==
    {"aux_clk_src_clear", "aux_cfg_clear", "aux_power_down_allow_sleep",
     "pwr_off_req", "mcu_bus_disconnect"}

\* one step of a sequence, whichever of the three it belongs to
StepEffect(step, r, g, m) ==
    CASE step \in ChipRegisterSteps ->
            LET x == ChipRegisterEffect(step, r) IN [e |-> x.e, r |-> x.r, g |-> g]
      [] step \in AuxRegisterSteps ->
            LET x == AuxRegisterEffect(step, r) IN [e |-> x.e, r |-> x.r, g |-> g]
      [] OTHER ->
            LET x == GatewayEffect(step, g, m) IN [e |-> x.e, r |-> r, g |-> x.g]

-----------------------------------------------------------------------------
(* chip.rs: Cc26x0::sleep *)

\* chip.rs:36, the outcome of SleepMode::from that panics
Unimplemented == -2

\* chip.rs:30-39, SleepMode::from
\* the conversion as it would be if it took an unknown depth for Active
SleepModeFromLenient(n) == IF n \in {DeepSleep, Sleep} THEN n ELSE Active

SleepModeFrom(n) == IF n \in {DeepSleep, Sleep, Active} THEN n ELSE Unimplemented

\* the arm as it would be if it matched every depth but Active
RunsDeepSequenceNotActive(m) == m # Active

\* chip.rs:129-130 and chip.rs:169-170: the arm that runs the sequences
RunsDeepSequence(m) == m = DeepSleep

\* the entry sequence with the AUX allowed to sleep before the IO latch freezes
SleepEntryAuxFirst ==
    << "before_sleep", "aux_allow_sleep", "iolatch_freeze", "ram_retention",
       "dma_crypto_off", "pd_off_VIMS", "pd_off_RFC", "pd_off_CPU", "jtag_off",
       "mcu_power_down", "rtc_sync", "vims_off", "scr_deep_set" >>

\* chip.rs:131-162, the statements of the DeepSleep arm before the WFI
SleepEntry ==
    << "before_sleep", "iolatch_freeze", "aux_allow_sleep", "ram_retention",
       "dma_crypto_off", "pd_off_VIMS", "pd_off_RFC", "pd_off_CPU", "jtag_off",
       "mcu_power_down", "rtc_sync", "vims_off", "scr_deep_set" >>

\* the exit sequence with the IO latch released before the domains are enabled
SleepExitLatchFirst ==
    << "rtc_sync", "aux_wake_up", "uldo_release", "iolatch_release", "pd_on_VIMS",
       "pd_on_CPU", "rtc_sync", "rtc_sync", "scr_deep_clear", "after_wakeup" >>

\* chip.rs:171-190, the statements of the DeepSleep arm after the WFI
SleepExit ==
    << "rtc_sync", "aux_wake_up", "uldo_release", "pd_on_VIMS", "pd_on_CPU",
       "rtc_sync", "iolatch_release", "rtc_sync", "scr_deep_clear",
       "after_wakeup" >>

\* the depth as it would be if the second match asked the power manager again
ExitDepthAskedAgain == lowest

\* chip.rs:169, the value the second match looks at
ExitDepth == sleep_mode

\* aux.rs:121-132, the writes of power_down before its busy-wait
\* the writes of power_down with the power-off request made first
PowerDownSeqRequestFirst ==
    << "pwr_off_req", "aux_clk_src_clear", "aux_cfg_clear",
       "aux_power_down_allow_sleep", "mcu_bus_disconnect" >>

PowerDownSeq ==
    << "aux_clk_src_clear", "aux_cfg_clear", "aux_power_down_allow_sleep",
       "pwr_off_req", "mcu_bus_disconnect" >>

ThreadFrame == UNCHANGED <<lowest, pending, enabled, raised, interrupt, atcall, ble, req>>

\* chip.rs:124-131, entry of sleep(): the depth is read once
CallSleep ==
    /\ pc = "idle"
    /\ op' = "sleep"
    /\ log' = <<>>
    /\ polls' = 0
    /\ idx' = 1
    /\ IF SleepModeFrom(lowest) = Unimplemented
       THEN /\ pc' = "halted"
            /\ sleep_mode' = NoMode
       ELSE /\ sleep_mode' = SleepModeFrom(lowest)
            /\ pc' = IF RunsDeepSequence(SleepModeFrom(lowest)) THEN "entry" ELSE "wfi"
    /\ UNCHANGED <<clock, regs, gw>>
    /\ ThreadFrame

\* one statement of chip.rs:131-162
SleepEntryStep ==
    /\ pc = "entry"
    /\ LET x == StepEffect(SleepEntry[idx], regs, gw, sleep_mode)
       IN  /\ regs' = x.r
           /\ gw' = x.g
           /\ log' = Append(log, x.e)
    /\ IF idx = Len(SleepEntry)
       THEN pc' = "wfi" /\ idx' = 1
       ELSE pc' = pc /\ idx' = idx + 1
    /\ UNCHANGED <<op, sleep_mode, clock, polls>>
    /\ ThreadFrame

\* chip.rs:167, support::wfi(): the core suspends
Wfi ==
    /\ pc = "wfi"
    /\ log' = Append(log, W("WFI", 0))
    /\ pc' = "asleep"
    /\ UNCHANGED <<op, idx, sleep_mode, clock, regs, gw, polls>>
    /\ ThreadFrame

\* an interrupt releases the WFI; chip.rs:169-170 picks the arm
WfiReturn ==
    /\ pc = "asleep"
    /\ pc' = IF RunsDeepSequence(ExitDepth) THEN "exit" ELSE "idle"
    /\ idx' = 1
    /\ UNCHANGED <<op, sleep_mode, clock, regs, gw, polls, log>>
    /\ ThreadFrame

\* one statement of chip.rs:171-190
SleepExitStep ==
    /\ pc = "exit"
    /\ LET x == StepEffect(SleepExit[idx], regs, gw, sleep_mode)
       IN  /\ regs' = x.r
           /\ gw' = x.g
           /\ log' = Append(log, x.e)
    /\ IF idx = Len(SleepExit)
       THEN pc' = "idle" /\ idx' = 1
       ELSE pc' = pc /\ idx' = idx + 1
    /\ UNCHANGED <<op, sleep_mode, clock, polls>>
    /\ ThreadFrame

-----------------------------------------------------------------------------
(* aux.rs: activate_clock, power_up, power_down *)

\* aux.rs:81-82, entry of activate_clock(clock)
CallActivateClock ==
    /\ pc = "idle"
    /\ \E k \in AuxClock : clock' = k
    /\ op' = "activate_clock"
    /\ pc' = "pu_check"
    /\ log' = <<>>
    /\ polls' = 0
    /\ UNCHANGED <<idx, sleep_mode, regs, gw>>
    /\ ThreadFrame

\* aux.rs:104-106, power_up: return when the status is already WakeUp
PowerUpCheck ==
    /\ pc = "pu_check"
    /\ log' = Append(log, W("PWR_STAT?", regs.pwr_stat))
    /\ pc' = IF power_status(regs) = "WakeUp" THEN "clk_set" ELSE "pu_wake"
    /\ UNCHANGED <<op, idx, sleep_mode, clock, regs, gw, polls>>
    /\ ThreadFrame

\* aux.rs:109, power_up: force the AUX to wake up
PowerUpWake ==
    /\ pc = "pu_wake"
    /\ regs' = wakeup_event(regs, "WakeUp")
    /\ log' = Append(log, W("AUX_CTL", 1))
    /\ pc' = "pu_wait"
    /\ UNCHANGED <<op, idx, sleep_mode, clock, gw, polls>>
    /\ ThreadFrame

\* aux.rs:111, power_up: one read of the busy-wait
PowerUpPoll ==
    /\ pc = "pu_wait"
    /\ log' = Append(log, W("PWR_STAT?", regs.pwr_stat))
    /\ IF power_status(regs) # "WakeUp"
       THEN /\ polls < MaxPolls
            /\ polls' = polls + 1
            /\ pc' = pc
       ELSE /\ polls' = 0
            /\ pc' = "clk_set"
    /\ UNCHANGED <<op, idx, sleep_mode, clock, regs, gw>>
    /\ ThreadFrame

\* aux.rs:84-92, activate_clock: read MOD_CLK_EN0, write it back with the bit of
\* the clock
SetClock ==
    /\ pc = "clk_set"
    /\ regs' = [regs EXCEPT !.mod_clk_en0 = ClockEnableValue(regs, clock)]
    /\ log' = log \o << W("MOD_CLK_EN0?", regs.mod_clk_en0),
                        W("MOD_CLK_EN0", ClockEnableValue(regs, clock)) >>
    /\ pc' = "idle"
    /\ UNCHANGED <<op, idx, sleep_mode, clock, gw, polls>>
    /\ ThreadFrame

\* aux.rs:115-117, entry of power_down()
CallPowerDown ==
    /\ pc = "idle"
    /\ op' = "power_down"
    /\ pc' = "pd_seq"
    /\ idx' = 1
    /\ log' = <<>>
    /\ polls' = 0
    /\ UNCHANGED <<sleep_mode, clock, regs, gw>>
    /\ ThreadFrame

\* one write of aux.rs:121-132
PowerDownStep ==
    /\ pc = "pd_seq"
    /\ LET x == StepEffect(PowerDownSeq[idx], regs, gw, sleep_mode)
       IN  /\ regs' = x.r
           /\ gw' = x.g
           /\ log' = Append(log, x.e)
    /\ IF idx = Len(PowerDownSeq)
       THEN pc' = "pd_wait" /\ idx' = 1
       ELSE pc' = pc /\ idx' = idx + 1
    /\ UNCHANGED <<op, sleep_mode, clock, polls>>
    /\ ThreadFrame

\* aux.rs:134, power_down: one read of the busy-wait
PowerDownPoll ==
    /\ pc = "pd_wait"
    /\ log' = Append(log, W("PWR_STAT?", regs.pwr_stat))
    /\ IF power_status(regs) # "AllowSleep"
       THEN /\ polls < MaxPolls
            /\ polls' = polls + 1
            /\ pc' = pc
       ELSE /\ polls' = 0
            /\ pc' = "idle"
    /\ UNCHANGED <<op, idx, sleep_mode, clock, regs, gw>>
    /\ ThreadFrame

-----------------------------------------------------------------------------
(* chip.rs: Cc26x0::service_pending_interrupts *)

\* chip.rs:6-8
X0_RF_CPE1 == 2
X0_RF_CPE0 == 9
X0_RF_CMD_ACK == 11
\* cc26xx::peripheral_interrupts (chip.rs:3): the line numbers of the CC26x0
GPIO == 0
I2C == 1
AON_RTC == 4
UART0 == 5
GPT0A == 15
GPT0B == 16
GPT1A == 17
GPT1B == 18
GPT2A == 19
GPT2B == 20
GPT3A == 21
GPT3B == 22
AON_PROG == 29
\* interrupt before the NVIC was asked
NoLine == -1

\* the lines the hardware raises; I2C has no arm in the match of chip.rs:89
Lines ==
    {GPIO, I2C, X0_RF_CPE1, AON_RTC, UART0, X0_RF_CPE0, X0_RF_CMD_ACK, GPT0A,
     GPT0B, GPT1A, GPT1B, GPT2A, GPT2B, GPT3A, GPT3B, AON_PROG}

\* the match with GPT1B bound to the handler of GPT0, a slip of the pen
HandlerOfGptSlip(line) ==
    CASE line = GPIO -> "gpio::PORT"
      [] line = AON_RTC -> "rtc::RTC"
      [] line = UART0 -> "uart::UART0"
      [] line \in {GPT0A, GPT0B, GPT1B} -> "timer::GPT0"
      [] line = GPT1A -> "timer::GPT1"
      [] line \in {GPT2A, GPT2B} -> "timer::GPT2"
      [] line \in {GPT3A, GPT3B} -> "timer::GPT3"
      [] line = X0_RF_CMD_ACK -> "radio::RFC(CmdAck)"
      [] line = X0_RF_CPE0 -> "radio::RFC(Cpe0)"
      [] line = X0_RF_CPE1 -> "radio::RFC(Cpe1)"
      [] line = AON_PROG -> "none"
      [] OTHER -> "panic"

\* the match with a last arm that ignores the line instead of halting
HandlerOfIgnoreUnknown(line) ==
    CASE line = GPIO -> "gpio::PORT"
      [] line = AON_RTC -> "rtc::RTC"
      [] line = UART0 -> "uart::UART0"
      [] line \in {GPT0A, GPT0B} -> "timer::GPT0"
      [] line \in {GPT1A, GPT1B} -> "timer::GPT1"
      [] line \in {GPT2A, GPT2B} -> "timer::GPT2"
      [] line \in {GPT3A, GPT3B} -> "timer::GPT3"
      [] line = X0_RF_CMD_ACK -> "radio::RFC(CmdAck)"
      [] line = X0_RF_CPE0 -> "radio::RFC(Cpe0)"
      [] line = X0_RF_CPE1 -> "radio::RFC(Cpe1)"
      [] OTHER -> "none"

\* chip.rs:89-112, the match: the handler a line is bound to, "none" for the
\* arm that does nothing, "panic" for the arm that halts
HandlerOf(line) ==
    CASE line = GPIO -> "gpio::PORT"
      [] line = AON_RTC -> "rtc::RTC"
      [] line = UART0 -> "uart::UART0"
      [] line \in {GPT0A, GPT0B} -> "timer::GPT0"
      [] line \in {GPT1A, GPT1B} -> "timer::GPT1"
      [] line \in {GPT2A, GPT2B} -> "timer::GPT2"
      [] line \in {GPT3A, GPT3B} -> "timer::GPT3"
      [] line = X0_RF_CMD_ACK -> "radio::RFC(CmdAck)"
      [] line = X0_RF_CPE0 -> "radio::RFC(Cpe0)"
      [] line = X0_RF_CPE1 -> "radio::RFC(Cpe1)"
      [] line = AON_PROG -> "none"
      [] OTHER -> "panic"

\* nvic::next_pending(): the lines the NVIC may yield, none when the set is empty
next_pending(p) == p

IrqFrame == UNCHANGED <<idx, sleep_mode, clock, lowest, regs, gw, polls, ble, req>>

\* the loop as it would be if it served only the lines pending at the call
ServiceNextOnlyAtCall ==
    /\ pc = "svc_next"
    /\ IF next_pending(pending \cap atcall) = {}
       THEN /\ pc' = "idle"
            /\ UNCHANGED <<interrupt, log>>
       ELSE /\ \E l \in next_pending(pending \cap atcall) :
                 /\ interrupt' = l
                 /\ log' = Append(log, W("next_pending", l))
            /\ pc' = "svc_dispatch"
    /\ UNCHANGED <<op, pending, enabled, raised, atcall>>
    /\ UNCHANGED <<idx, sleep_mode, clock, lowest, regs, gw, polls, ble, req>>

\* chip.rs:86-87, entry of service_pending_interrupts()
CallService ==
    /\ pc = "idle"
    /\ op' = "service"
    /\ pc' = "svc_next"
    /\ log' = <<>>
    /\ atcall' = pending
    /\ UNCHANGED <<pending, enabled, raised, interrupt>>
    /\ IrqFrame

\* chip.rs:88, while let Some(interrupt) = nvic::next_pending()
ServiceNext ==
    /\ pc = "svc_next"
    /\ IF next_pending(pending) = {}
       THEN /\ pc' = "idle"
            /\ UNCHANGED <<interrupt, log>>
       ELSE /\ \E l \in next_pending(pending) :
                 /\ interrupt' = l
                 /\ log' = Append(log, W("next_pending", l))
            /\ pc' = "svc_dispatch"
    /\ UNCHANGED <<op, pending, enabled, raised, atcall>>
    /\ IrqFrame

\* chip.rs:89-112, the match on the line
ServiceDispatch ==
    /\ pc = "svc_dispatch"
    /\ CASE HandlerOf(interrupt) = "panic" ->
               pc' = "halted" /\ log' = log
         [] HandlerOf(interrupt) = "none" ->
               pc' = "svc_clear" /\ log' = log
         [] OTHER ->
               pc' = "svc_clear" /\ log' = Append(log, W(HandlerOf(interrupt), 0))
    /\ UNCHANGED <<op, pending, enabled, raised, interrupt, atcall>>
    /\ IrqFrame

\* chip.rs:113-114, n.clear_pending()
ServiceClear ==
    /\ pc = "svc_clear"
    /\ pending' = pending \ {interrupt}
    /\ log' = Append(log, W("clear_pending", interrupt))
    /\ pc' = "svc_enable"
    /\ UNCHANGED <<op, enabled, raised, interrupt, atcall>>
    /\ IrqFrame

\* chip.rs:115, n.enable()
ServiceEnable ==
    /\ pc = "svc_enable"
    /\ enabled' = enabled \cup {interrupt}
    /\ log' = Append(log, W("enable", interrupt))
    /\ pc' = "svc_next"
    /\ UNCHANGED <<op, pending, raised, interrupt, atcall>>
    /\ IrqFrame

\* a peripheral raises a line: the line is pending, and the interrupt entry
\* stub of the kernel has disabled it
RaiseInterrupt ==
    /\ raised < MaxRaised
    /\ pc # "halted"
    /\ \E l \in Lines \ pending :
          /\ pending' = pending \cup {l}
          /\ enabled' = enabled \ {l}
    /\ raised' = raised + 1
    /\ UNCHANGED <<pc, op, log, interrupt, atcall>>
    /\ IrqFrame

-----------------------------------------------------------------------------
(* The environment: the AUX power domain and the host's power manager *)

\* the AUX power domain is on: bit 1 of PWR_STAT
AuxPowered(r) == 1 \in BitsOf(r.pwr_stat)

\* the AUX domain powers up some time after a wake request
HwAuxPowerOn ==
    /\ regs.aux_ctl = 1
    /\ ~AuxPowered(regs)
    /\ regs' = [regs EXCEPT !.pwr_stat = BitOr(regs.pwr_stat, PWR_STAT_AUX_ON)]
    /\ UNCHANGED <<pc, op, idx, sleep_mode, clock, lowest, gw, polls, log,
                   pending, enabled, raised, interrupt, atcall, ble, req>>

\* the AUX domain powers down some time after it is allowed to sleep
HwAuxPowerOff ==
    /\ regs.aux_ctl = 0
    /\ AuxPowered(regs)
    /\ regs' = [regs EXCEPT !.pwr_stat = BitAndNot(regs.pwr_stat, PWR_STAT_AUX_ON)]
    /\ UNCHANGED <<pc, op, idx, sleep_mode, clock, lowest, gw, polls, log,
                   pending, enabled, raised, interrupt, atcall, ble, req>>

\* the power manager's lowest sleep mode changes (a driver takes or drops a
\* resource); chip.rs:126 only ever reads it
PmChange ==
    /\ \E m \in 0..MaxDepthInput : m # lowest /\ lowest' = m
    /\ UNCHANGED <<pc, op, idx, sleep_mode, clock, regs, gw, polls, log,
                   pending, enabled, raised, interrupt, atcall, ble, req>>

-----------------------------------------------------------------------------
(* ble.rs: the BLE advertiser *)

\* ble.rs:44-47, enum BleAdvertiseCommands
ConnectUndirected == 6147
ConnectDirected == 6148
NonConnectUndirected == 6149
\* ble.rs:100-103, the layout of the caller's buffer
PACKET_ADDR_START == 2
PACKET_ADDR_END == 8
PACKET_PAYLOAD_START == 8
PACKET_HDR_PDU == 0
\* ble.rs:31 and ble.rs:34, the sizes of the payload and address regions
AdvPayloadSize == 64
DeviceAddressSize == 6
\* ble.rs:130, ble.rs:144 and ble.rs:150
END_TRIGGER == 1
COND_NEVER == 1
WHITENING_INIT == 81
\* the match of ble.rs:133-138 and of ble.rs:161-166 taking the panic arm
NoCommand == -1
NoChannel == -1

\* the addresses of the static regions, fixed at link time and distinct
Regions ==
    <<"BLE_OVERRIDES", "BLE_PARAMS_BUF", "BLE_ADV_PAYLOAD", "PACKET_BUF",
      "DEVICE_ADDRESS">>
AddrOf(region) ==
    LET k == CHOOSE i \in 1..Len(Regions) : Regions[i] = region
    IN  256 * k

\* bitfield!: the setter of the field msb..lsb replaces those bits of v by
\* the low bits of value and leaves the others
SetBitRange(v, msb, lsb, value) ==
    FromBits((BitsOf(v) \ (lsb..msb))
             \cup {k + lsb : k \in {j \in BitsOf(value) : j + lsb <= msb}})

\* ble.rs:266, pub _init, set_init: 6, 0
set_init(w, value) == SetBitRange(w, 6, 0, value)
\* ble.rs:267, pub _override, set_override: 1
set_override(w, on) == SetBitRange(w, 1, 1, IF on THEN 1 ELSE 0)
\* rfc_commands::RfcCondition, the rule in the low four bits
set_rule(c, value) == SetBitRange(c, 3, 0, value)

\* ble.rs:147-152, the whitening byte of the command
WhiteningByte == set_init(set_override(0, TRUE), WHITENING_INIT)
\* ble.rs:142-146, the condition byte of the command
ConditionByte == set_rule(0, COND_NEVER)

\* buf[a..b] read one byte early
SliceOneEarly(buf, a, b) == [i \in 1..(b - a) |-> buf[a + i - 1]]

\* the match of the channel letting a data channel through as channel 0
ChannelOfDataAllowed(radio_channel) ==
    CASE radio_channel = "AdvertisingChannel37" -> 37
      [] radio_channel = "AdvertisingChannel38" -> 38
      [] radio_channel = "AdvertisingChannel39" -> 39
      [] OTHER -> 0

\* the match with the first two arms exchanged
CommandOfSwapped(pdu) ==
    CASE pdu = 0 -> ConnectDirected
      [] pdu = 1 -> ConnectUndirected
      [] pdu = 2 -> NonConnectUndirected
      [] OTHER -> NoCommand

\* ble.rs:133-138, match pdu
CommandOf(pdu) ==
    CASE pdu = 0 -> ConnectUndirected
      [] pdu = 1 -> ConnectDirected
      [] pdu = 2 -> NonConnectUndirected
      [] OTHER -> NoCommand

\* ble.rs:161-166, match radio_channel
ChannelOf(radio_channel) ==
    CASE radio_channel = "AdvertisingChannel37" -> 37
      [] radio_channel = "AdvertisingChannel38" -> 38
      [] radio_channel = "AdvertisingChannel39" -> 39
      [] OTHER -> NoChannel

\* a slice checked at its end only
SliceOkEndOnly(buf, a, b) == b <= Len(buf)

\* the number of bytes out of n that an indexed copy writes into a region of
\* size bytes before the index check panics
Fits(n, size) == IF n <= size THEN n ELSE size

\* buf[a..b] of the source, the bytes a .. b-1 counted from 0
Slice(buf, a, b) == [i \in 1..(b - a) |-> buf[a + i]]
\* a slice of the source panics when its bounds are out of order or past the end
SliceOk(buf, a, b) == a <= b /\ b <= Len(buf)

\* region[i] = src[i] for the bytes of src that fit in the region
CopyInto(region, src) ==
    [i \in 1..Len(region) |-> IF i <= Len(src) THEN src[i] ELSE region[i]]

Zeros(n) == [i \in 1..n |-> 0]

\* ble.rs:241-260, BleAdvertiseParams over the zeroed parameter region
ZeroParams ==
    [rx_queue |-> 0, rx_config |-> 0, adv_config |-> 0, adv_len |-> 0,
     scan_rsp_len |-> 0, adv_data |-> 0, scan_rsp_data |-> 0,
     device_address |-> 0, white_list |-> 0, dummy0 |-> 0, dummy1 |-> 0,
     end_trigger |-> 0, end_time |-> 0]

\* ble.rs:225-238, BleAdvertise over the zeroed packet region
ZeroPacket ==
    [command_no |-> 0, status |-> 0, p_nextop |-> 0, ratmr |-> 0,
     start_trigger |-> 0, condition |-> 0, channel |-> 0, whitening |-> 0,
     params |-> 0, output |-> 0]

\* ble.rs:30-34, the static regions at start; the radio core has no mode
InitBle ==
    [mode |-> "None",
     params |-> ZeroParams,
     packet |-> ZeroPacket,
     adv_payload |-> Zeros(AdvPayloadSize),
     adv_len |-> 0,
     device_address |-> Zeros(DeviceAddressSize),
     outstanding |-> FALSE,
     calls |-> 0,
     confs |-> 0,
     sends |-> 0]

NoRequest == [buf |-> <<>>, len |-> 0, channel |-> "none"]

\* the buffers, lengths and channels the callers hand in
Pdus == {0, 1, 2, 3, 64}
Seeds == {17, 96}
BufLens == {6, 30, 80}
Lens == {7, 8, 30, 72, 73}
Channels ==
    {"AdvertisingChannel37", "AdvertisingChannel38", "AdvertisingChannel39",
     "DataChannel0"}
Buf(pdu, seed, n) ==
    [i \in 1..n |-> IF i = PACKET_HDR_PDU + 1 THEN pdu ELSE (seed + 17 * i) % 256]

\* a status the radio core writes into a command it has run
CoStatus == {1}

BleFrame ==
    UNCHANGED <<idx, sleep_mode, clock, lowest, regs, polls, pending,
                enabled, raised, interrupt, atcall>>

\* RfcCore.enable(): the radio core is powered, its power domain is on
RfcEnable(g) == [g EXCEPT !.pd["RFC"] = TRUE]

\* configure() as it would be without the early return
NeedsConfigureAlways(mode) == TRUE

\* ble.rs:68-70, configure() returns at once when the mode is BLE
NeedsConfigure(mode) == mode # "BLE"

\* the calls of configure() with the override table submitted first
ConfigureCallsSetupFirst ==
    << W("rfc.setup", AddrOf("BLE_OVERRIDES")),
       W("rfc.set_mode", 1),
       W("osc.request_switch_to_hf_xosc", 0),
       W("rfc.enable", 0),
       W("rfc.start_rat", 0),
       W("osc.perform_switch", 0) >>

\* ble.rs:72-91, the calls of configure() in program order
ConfigureCalls ==
    << W("rfc.set_mode", 1),
       W("osc.request_switch_to_hf_xosc", 0),
       W("rfc.enable", 0),
       W("rfc.start_rat", 0),
       W("osc.perform_switch", 0),
       W("rfc.setup", AddrOf("BLE_OVERRIDES")) >>

\* ble.rs:192-198, entry of transmit_advertisement(buf, len, channel)
CallTransmit ==
    /\ pc = "idle"
    /\ ble.calls < MaxCalls
    /\ \E pdu \in Pdus, seed \in Seeds, n \in BufLens, len \in Lens,
          ch \in Channels :
          req' = [buf |-> Buf(pdu, seed, n), len |-> len, channel |-> ch]
    /\ op' = "transmit"
    /\ pc' = "ble_addr"
    /\ log' = <<>>
    /\ ble' = [ble EXCEPT !.calls = @ + 1]
    /\ UNCHANGED gw
    /\ BleFrame

\* ble.rs:158, entry of advertise(radio_channel)
CallAdvertise ==
    /\ pc = "idle"
    /\ ble.calls < MaxCalls
    /\ \E ch \in Channels :
          req' = [buf |-> <<>>, len |-> 0, channel |-> ch]
    /\ op' = "advertise"
    /\ pc' = "adv_configure"
    /\ log' = <<>>
    /\ ble' = [ble EXCEPT !.calls = @ + 1]
    /\ UNCHANGED gw
    /\ BleFrame

\* ble.rs:105-108, extract the device address
BleCopyAddress ==
    /\ pc = "ble_addr"
    /\ IF SliceOk(req.buf, PACKET_ADDR_START, PACKET_ADDR_END)
       THEN /\ ble' = [ble EXCEPT !.device_address =
                          CopyInto(@, Slice(req.buf, PACKET_ADDR_START,
                                            PACKET_ADDR_END))]
            /\ log' = Append(log, W("DEVICE_ADDRESS", 0))
            /\ pc' = "ble_payload"
       ELSE /\ pc' = "halted"
            /\ UNCHANGED <<ble, log>>
    /\ UNCHANGED <<op, req>>
    /\ UNCHANGED gw
    /\ BleFrame

\* ble.rs:110-115, copy the rest of the payload and record its length
BleCopyPayload ==
    /\ pc = "ble_payload"
    /\ IF SliceOk(req.buf, PACKET_PAYLOAD_START, req.len)
       THEN LET src == Slice(req.buf, PACKET_PAYLOAD_START, req.len)
            IN  /\ log' = Append(log, W("BLE_ADV_PAYLOAD",
                                         Fits(Len(src), AdvPayloadSize)))
                /\ IF Len(src) <= AdvPayloadSize
                   THEN /\ ble' = [ble EXCEPT
                              !.adv_payload = CopyInto(@, src),
                              !.adv_len = (req.len - PACKET_PAYLOAD_START) % 256]
                        /\ pc' = "ble_zero"
                   ELSE /\ ble' = [ble EXCEPT !.adv_payload = CopyInto(@, src)]
                        /\ pc' = "halted"
       ELSE /\ pc' = "halted"
            /\ UNCHANGED <<ble, log>>
    /\ UNCHANGED <<op, req>>
    /\ UNCHANGED gw
    /\ BleFrame

\* ble.rs:117-123, reset the packet buffers
BleZeroRegions ==
    /\ pc = "ble_zero"
    /\ ble' = [ble EXCEPT !.params = ZeroParams, !.packet = ZeroPacket]
    /\ log' = log \o << W("BLE_PARAMS_BUF", 0), W("PACKET_BUF", 0) >>
    /\ pc' = "ble_params"
    /\ UNCHANGED <<op, req>>
    /\ UNCHANGED gw
    /\ BleFrame

\* ble.rs:125-130, the parameter block
BleFillParams ==
    /\ pc = "ble_params"
    /\ ble' = [ble EXCEPT !.params =
                  [@ EXCEPT !.device_address = AddrOf("DEVICE_ADDRESS"),
                            !.adv_len = ble.adv_len,
                            !.adv_data = AddrOf("BLE_ADV_PAYLOAD"),
                            !.end_time = 0,
                            !.end_trigger = END_TRIGGER]]
    /\ log' = Append(log, W("BLE_PARAMS_BUF", ble.adv_len))
    /\ pc' = "ble_command"
    /\ UNCHANGED <<op, req>>
    /\ UNCHANGED gw
    /\ BleFrame

\* ble.rs:132-155 and ble.rs:199, the command, then on to advertise(channel)
BleFillCommand ==
    /\ pc = "ble_command"
    /\ LET pdu == req.buf[PACKET_HDR_PDU + 1]
       IN  IF CommandOf(pdu) = NoCommand
           THEN /\ pc' = "halted"
                /\ UNCHANGED <<ble, log>>
           ELSE /\ ble' = [ble EXCEPT !.packet =
                              [@ EXCEPT !.command_no = CommandOf(pdu),
                                        !.condition = ConditionByte,
                                        !.whitening = WhiteningByte,
                                        !.params = AddrOf("BLE_PARAMS_BUF")]]
                /\ log' = Append(log, W("PACKET_BUF", CommandOf(pdu)))
                /\ pc' = "adv_configure"
    /\ UNCHANGED <<op, req>>
    /\ UNCHANGED gw
    /\ BleFrame

\* ble.rs:159 and ble.rs:67-92, configure()
AdvConfigure ==
    /\ pc = "adv_configure"
    /\ IF NeedsConfigure(ble.mode)
       THEN /\ ble' = [ble EXCEPT !.mode = "BLE", !.confs = @ + 1]
            /\ log' = log \o << W("rfc.current_mode", 0) >> \o ConfigureCalls
            /\ gw' = RfcEnable(gw)
       ELSE /\ log' = Append(log, W("rfc.current_mode", 1))
            /\ UNCHANGED <<ble, gw>>
    /\ pc' = "adv_channel"
    /\ UNCHANGED <<op, req>>
    /\ BleFrame

\* ble.rs:161-171, the channel, then the status and channel of the command
AdvChannel ==
    /\ pc = "adv_channel"
    /\ IF ChannelOf(req.channel) = NoChannel
       THEN /\ pc' = "halted"
            /\ UNCHANGED <<ble, log>>
       ELSE /\ ble' = [ble EXCEPT !.packet =
                          [@ EXCEPT !.status = 0,
                                    !.channel = ChannelOf(req.channel)]]
            /\ log' = log \o << W("PACKET_BUF", 0),
                                W("PACKET_BUF", ChannelOf(req.channel)) >>
            /\ pc' = "adv_send"
    /\ UNCHANGED <<op, req>>
    /\ UNCHANGED gw
    /\ BleFrame

\* ble.rs:172-176, send(cmd): Ok (recorded as 0) returns to the caller, Err
\* with a status panics
AdvSend ==
    /\ pc = "adv_send"
    /\ \E st \in {0} \cup CoStatus :
          /\ log' = log \o << W("rfc.send", AddrOf("PACKET_BUF")),
                              W("rfc.send.result", st) >>
          /\ IF st = 0
             THEN /\ ble' = [ble EXCEPT !.outstanding = TRUE, !.sends = @ + 1]
                  /\ pc' = "idle"
             ELSE /\ ble' = [ble EXCEPT !.sends = @ + 1]
                  /\ pc' = "halted"
    /\ UNCHANGED <<op, req>>
    /\ UNCHANGED gw
    /\ BleFrame

\* ble.rs:184-188, tx_done(): the completion callback of the radio core
TxDone ==
    /\ pc = "idle"
    /\ ble.outstanding
    /\ ble' = [ble EXCEPT !.outstanding = FALSE]
    /\ op' = "tx_done"
    /\ log' = << W("transmit_event", 0) >>
    /\ UNCHANGED <<pc, req>>
    /\ UNCHANGED gw
    /\ BleFrame

\* the radio core writes the status of the command it runs
RfcStatus ==
    /\ ble.outstanding
    /\ pc # "halted"
    /\ ble.packet.status = 0
    /\ \E st \in CoStatus : ble' = [ble EXCEPT !.packet = [@ EXCEPT !.status = st]]
    /\ UNCHANGED <<pc, op, log, req>>
    /\ UNCHANGED gw
    /\ BleFrame

-----------------------------------------------------------------------------
(* Initial state: the thread is idle, the chip runs *)

InitRegs ==
    { [iolatch |-> 1, aux_clk |-> ac, aux_cfg |-> 1, aux_ctl |-> a,
       pwr_stat |-> BitOr(s, IF a = 1 THEN PWR_STAT_AUX_ON ELSE 0),
       mod_clk_en0 |-> mc, pwr_off_req |-> 0, mcu_bus_ctl |-> 0, scr |-> sc] :
         ac \in {1, 2049 + 4096}, a \in {0, 1}, s \in {0, 1}, mc \in {0, 4},
         sc \in {0, 2 ^ SLEEP_ON_EXIT_OFFSET} }

InitGw ==
    [ram_retention |-> FALSE, dma_crypto |-> TRUE,
     pd |-> [d \in PowerDomains |-> d # "RFC"],
     jtag |-> TRUE, mcu_pd |-> FALSE, vims |-> TRUE, uldo |-> TRUE]

Init ==
    /\ pc = "idle"
    /\ op = "none"
    /\ idx = 1
    /\ sleep_mode = NoMode
    /\ clock = "OscillatorControl"
    /\ lowest \in 0..MaxDepthInput
    /\ regs \in InitRegs
    /\ gw = InitGw
    /\ polls = 0
    /\ log = <<>>
    /\ pending = {}
    /\ enabled = {}
    /\ raised = 0
    /\ interrupt = NoLine
    /\ atcall = {}
    /\ ble = InitBle
    /\ req = NoRequest

SleepNext == CallSleep \/ SleepEntryStep \/ Wfi \/ WfiReturn \/ SleepExitStep

AuxNext ==
    \/ CallActivateClock \/ PowerUpCheck \/ PowerUpWake \/ PowerUpPoll \/ SetClock
    \/ CallPowerDown \/ PowerDownStep \/ PowerDownPoll

EnvNext == HwAuxPowerOn \/ HwAuxPowerOff \/ PmChange

Next == SleepNext \/ AuxNext \/ EnvNext

Spec == Init /\ [][Next]_vars

IrqNext ==
    \/ CallService \/ ServiceNext \/ ServiceDispatch \/ ServiceClear
    \/ ServiceEnable \/ RaiseInterrupt

\* the registers at reset: the router touches none of them
InitIrq ==
    /\ Init
    /\ lowest = Active
    /\ regs = [iolatch |-> 1, aux_clk |-> 1, aux_cfg |-> 1, aux_ctl |-> 0,
               pwr_stat |-> 0, mod_clk_en0 |-> 0, pwr_off_req |-> 0,
               mcu_bus_ctl |-> 0, scr |-> 0]

\* the interrupt router and the interrupt sources alone
SpecIrq == InitIrq /\ [][IrqNext]_vars

BleNext ==
    \/ CallTransmit \/ CallAdvertise \/ BleCopyAddress \/ BleCopyPayload
    \/ BleZeroRegions \/ BleFillParams \/ BleFillCommand \/ AdvConfigure
    \/ AdvChannel \/ AdvSend \/ TxDone \/ RfcStatus

\* the advertiser and the radio core alone
SpecBle == InitIrq /\ [][BleNext]_vars

\* the sleep sequence and advertise(channel) on one thread
SysNext ==
    \/ SleepNext
    \/ CallAdvertise \/ AdvConfigure \/ AdvChannel \/ AdvSend \/ TxDone
    \/ RfcStatus

\* the registers at reset, any depth from the power manager
InitSys ==
    /\ Init
    /\ regs = [iolatch |-> 1, aux_clk |-> 1, aux_cfg |-> 1, aux_ctl |-> 0,
               pwr_stat |-> 0, mod_clk_en0 |-> 0, pwr_off_req |-> 0,
               mcu_bus_ctl |-> 0, scr |-> 0]

SpecSys == InitSys /\ [][SysNext]_vars


-----------------------------------------------------------------------------
(* Properties of Cc26x0::sleep *)

IsHook(e) == e.reg \in {"before_sleep", "after_wakeup"}
IsWfi(e) == e.reg = "WFI"
IsRead(e) == e.reg \in {"PWR_STAT?", "MOD_CLK_EN0?"}

Count(s, Test(_)) == Cardinality({i \in 1..Len(s) : Test(s[i])})

\* index of the first WFI of the log, Len(log) + 1 when there is none
WfiIndex ==
    IF \E i \in 1..Len(log) : IsWfi(log[i])
    THEN CHOOSE i \in 1..Len(log) : IsWfi(log[i]) /\ \A j \in 1..(i - 1) : ~IsWfi(log[j])
    ELSE Len(log) + 1

BeforeWfi == SubSeq(log, 1, WfiIndex - 1)
AfterWfi == SubSeq(log, WfiIndex + 1, Len(log))
NotHook(e) == ~IsHook(e)
EffectsBeforeWfi == SelectSeq(BeforeWfi, NotHook)
EffectsAfterWfi == SelectSeq(AfterWfi, NotHook)

WfiIssued == \E i \in 1..Len(log) : IsWfi(log[i])
InSleep(m) == op = "sleep" /\ sleep_mode = m
SleepReturned(m) == InSleep(m) /\ pc = "idle"

\* the effects the deep-sleep entry must issue, in order, but for the last
EntryOrder ==
    << W("IOLATCH", 0), W("AUX_CTL", 0), W("RAM_RETENTION", 1), W("DMA_CRYPTO", 0),
       W("PD_VIMS", 0), W("PD_RFC", 0), W("PD_CPU", 0), W("JTAG", 0),
       W("MCU_POWER_DOWN", 1), W("RTC_SYNC", 0), W("VIMS", 0) >>

\* the last effect of the entry: SCR written with SLEEP_DEEP and SEVONPEND set
IsScrDeepSet(e) ==
    e.reg = "SCR" /\ {SLEEP_DEEP_OFFSET, SEVONPEND_OFFSET} \subseteq BitsOf(e.val)

EntryMatches(s) ==
    /\ Len(s) <= Len(EntryOrder) + 1
    /\ \A i \in 1..Len(s) :
          IF i <= Len(EntryOrder) THEN s[i] = EntryOrder[i] ELSE IsScrDeepSet(s[i])

\* C1: in a sleep() of depth DeepSleep the effects before the WFI are, in this
\* order and each once, IOLATCH<-0, AUX_CTL<-0, RAM retention, DMA/crypto off,
\* domains VIMS, RFC, CPU off, JTAG off, MCU power-down, RTC sync, VIMS cache
\* off, SCR with SLEEP_DEEP and SEVONPEND set; all of them precede the WFI.
C1_DeepSleepEntryOrder ==
    InSleep(DeepSleep) =>
        /\ EntryMatches(EffectsBeforeWfi)
        /\ WfiIssued => Len(EffectsBeforeWfi) = Len(EntryOrder) + 1

C1_Witness ==
    /\ InSleep(DeepSleep)
    /\ pc = "asleep"
    /\ Len(EffectsBeforeWfi) = Len(EntryOrder) + 1
    /\ {SLEEP_DEEP_OFFSET, SEVONPEND_OFFSET} \subseteq BitsOf(regs.scr)
    /\ regs.iolatch = 0

\* the effects the wake sequence must issue, in order, but for the last
ExitOrder ==
    << W("RTC_SYNC", 0), W("AUX_CTL", 1), W("ULDO", 0), W("PD_VIMS", 1),
       W("PD_CPU", 1), W("RTC_SYNC", 0), W("IOLATCH", 1), W("RTC_SYNC", 0) >>

\* the last effect of the wake: SCR written back with only SLEEP_DEEP cleared
IsScrDeepClear(e) ==
    /\ e.reg = "SCR"
    /\ Len(EffectsBeforeWfi) > 0
    /\ BitsOf(e.val) = BitsOf(Last(EffectsBeforeWfi).val) \ {SLEEP_DEEP_OFFSET}

ExitMatches(s) ==
    /\ Len(s) <= Len(ExitOrder) + 1
    /\ \A i \in 1..Len(s) :
          IF i <= Len(ExitOrder) THEN s[i] = ExitOrder[i] ELSE IsScrDeepClear(s[i])

\* C2: in a sleep() of depth DeepSleep the effects after the WFI are exactly, in
\* this order, RTC sync, AUX_CTL<-1, uLDO release, domains VIMS and CPU on,
\* RTC sync, IOLATCH<-1, RTC sync, SCR with SLEEP_DEEP cleared.
C2_DeepSleepWakeOrder ==
    InSleep(DeepSleep) =>
        /\ ExitMatches(EffectsAfterWfi)
        /\ pc = "idle" => Len(EffectsAfterWfi) = Len(ExitOrder) + 1

C2_Witness ==
    /\ SleepReturned(DeepSleep)
    /\ Len(EffectsAfterWfi) = Len(ExitOrder) + 1
    /\ SLEEP_DEEP_OFFSET \notin BitsOf(regs.scr)
    /\ regs.iolatch = 1

\* C3: a sleep() of depth 0, 1 or 2 issues the WFI exactly once; with depth
\* Sleep or Active it issues nothing else: no register write, no gateway call
\* and no hook, before or after the WFI.
C3_WfiOnceAndOnlyWfi ==
    (op = "sleep" /\ sleep_mode \in {DeepSleep, Sleep, Active}) =>
        /\ Count(log, IsWfi) <= 1
        /\ pc \in {"asleep", "exit", "idle"} => Count(log, IsWfi) = 1
        /\ pc \in {"entry", "wfi"} => Count(log, IsWfi) = 0
        /\ sleep_mode \in {Sleep, Active} =>
              /\ log \in {<<>>, << W("WFI", 0) >>}
              /\ pc \in {"wfi", "asleep", "idle"}

C3_Witness ==
    /\ SleepReturned(Active)
    /\ log = << W("WFI", 0) >>

IsBefore(e) == e.reg = "before_sleep"
IsAfter(e) == e.reg = "after_wakeup"

\* C4: the depth of a sleep() call is the one read at entry: when the call
\* returns, the wake sequence and after_wakeup(0) have run if and only if the
\* entry sequence and before_sleep(0) ran, whatever the power manager says by
\* then; with depth 0 before_sleep(0) is the first effect and after_wakeup(0)
\* the last, each once.
C4_DepthFixedAtEntry ==
    /\ (op = "sleep" /\ pc = "exit") => sleep_mode = DeepSleep /\ Len(BeforeWfi) > 0
    /\ (op = "sleep" /\ pc = "idle") =>
          /\ (Len(AfterWfi) > 0) <=> (Len(BeforeWfi) > 0)
          /\ (Count(log, IsAfter) > 0) <=> (Count(log, IsBefore) > 0)
          /\ (Len(BeforeWfi) > 0) <=> (sleep_mode = DeepSleep)
    /\ SleepReturned(DeepSleep) =>
          /\ log[1] = W("before_sleep", DeepSleep)
          /\ Last(log) = W("after_wakeup", DeepSleep)
          /\ Count(log, IsBefore) = 1
          /\ Count(log, IsAfter) = 1

C4_Witness ==
    /\ SleepReturned(DeepSleep)
    /\ lowest = Active
    /\ Last(log) = W("after_wakeup", DeepSleep)

IsLatchRelease(e) == e = W("IOLATCH", 1)

\* C5: when the wake sequence releases the IO latch (IOLATCH<-1), it does so
\* once in the call, the AUX power status is WakeUp and the VIMS and CPU
\* domains are enabled.
C5_LatchReleasedAfterAuxAwake ==
    (op = "sleep" /\ Len(log) > 0 /\ IsLatchRelease(Last(log))) =>
        /\ Count(log, IsLatchRelease) = 1
        /\ gw.pd["VIMS"] /\ gw.pd["CPU"]
        /\ power_status(regs) = "WakeUp"

IsPwrStatRead(e) == e.reg = "PWR_STAT?"
ReadsAuxOn(e) == IsPwrStatRead(e) /\ 1 \in BitsOf(e.val)

\* C6: after every write AUX_CTL<-1 the code does nothing but read PWR_STAT
\* until a read has bit 1 set: the effect that follows the write is a read, and
\* every other effect after it comes after a read with bit 1 set.
C6_WakeRequestAwaited ==
    \A i \in 1..Len(log) :
        log[i] = W("AUX_CTL", 1) =>
            \A j \in (i + 1)..Len(log) :
                ~IsPwrStatRead(log[j]) =>
                    \E k \in (i + 1)..(j - 1) : ReadsAuxOn(log[k])

-----------------------------------------------------------------------------
(* Properties of the AUX controller *)

InPowerUp == op = "activate_clock" /\ pc \in {"pu_wake", "pu_wait", "clk_set"}
NotRead(e) == ~IsRead(e)
Writes(s) == SelectSeq(s, NotRead)

\* C7: power_up started with bit 1 of PWR_STAT set writes nothing and returns;
\* started with it clear, it writes AUX_CTL<-1 once, nothing else, and returns
\* only after a read of PWR_STAT with bit 1 set, after any number of reads
\* with it clear.
C7_PowerUp ==
    InPowerUp =>
        /\ IsPwrStatRead(log[1])
        /\ IF ReadsAuxOn(log[1])
           THEN pc = "clk_set" /\ Len(log) = 1
           ELSE /\ pc = "pu_wake" => Len(log) = 1
                /\ pc # "pu_wake" =>
                      /\ Writes(log) = << W("AUX_CTL", 1) >>
                      /\ log[2] = W("AUX_CTL", 1)
                      /\ \A i \in 3..(Len(log) - 1) :
                            IsPwrStatRead(log[i]) /\ ~ReadsAuxOn(log[i])
                /\ pc = "pu_wait" =>
                      \A i \in 3..Len(log) : IsPwrStatRead(log[i]) /\ ~ReadsAuxOn(log[i])
                /\ pc = "clk_set" => Len(log) >= 3 /\ ReadsAuxOn(Last(log))

C7_Witness ==
    /\ InPowerUp
    /\ pc = "clk_set"
    /\ ~ReadsAuxOn(log[1])
    /\ Len(log) >= 4
    /\ ~ReadsAuxOn(log[3])
    /\ ReadsAuxOn(Last(log))

ActivateClockReturned == op = "activate_clock" /\ pc = "idle"

\* C8: activate_clock writes MOD_CLK_EN0 only after PWR_STAT was read with bit 1
\* set, at the start of the call or after AUX_CTL<-1 was written, and the
\* value written is the value read with bit 6 (OscillatorControl) or bit 0
\* (Semaphores) set and every other bit as it was.
C8_ClockSetAfterPowerUp ==
    /\ (op = "activate_clock" /\ pc # "idle") =>
          \A i \in 1..Len(log) : log[i].reg # "MOD_CLK_EN0"
    /\ ActivateClockReturned =>
          LET n == Len(log) IN
          /\ n >= 3
          /\ log[n].reg = "MOD_CLK_EN0"
          /\ log[n - 1].reg = "MOD_CLK_EN0?"
          /\ BitsOf(log[n].val) =
                BitsOf(log[n - 1].val) \cup
                    {IF clock = "OscillatorControl" THEN 6 ELSE 0}
          /\ regs.mod_clk_en0 = log[n].val
          /\ ReadsAuxOn(log[n - 2])
          /\ \A i \in 1..(n - 2) : log[i].reg # "MOD_CLK_EN0"
          /\ n > 3 => log[2] = W("AUX_CTL", 1)
          /\ \A i \in 1..(n - 3) : ~ReadsAuxOn(log[i])

C8_Witness ==
    /\ ActivateClockReturned
    /\ Len(log) > 3
    /\ clock = "Semaphores"
    /\ BitsOf(Last(log).val) = {0, 2, 6}

ClockGateBits == MOD_CLK_OSC + MOD_CLK_SEM

\* C9: a clock-gate bit of MOD_CLK_EN0 (bit 6 or bit 0) is set only while the
\* AUX domain is powered up: never while AUX_CTL is 0 or the power status is
\* AllowSleep.
C9_ClockBitsOnlyWhilePowered ==
    BitAnd(regs.mod_clk_en0, ClockGateBits) # 0 =>
        regs.aux_ctl = 1 /\ power_status(regs) = "WakeUp"


-----------------------------------------------------------------------------
(* Properties of the interrupt router *)

\* the handler each line is to be served by; AON_PROG is served by none
BoundHandler(l) ==
    CASE l = GPIO -> "gpio::PORT"
      [] l = AON_RTC -> "rtc::RTC"
      [] l = UART0 -> "uart::UART0"
      [] l = GPT0A \/ l = GPT0B -> "timer::GPT0"
      [] l = GPT1A \/ l = GPT1B -> "timer::GPT1"
      [] l = GPT2A \/ l = GPT2B -> "timer::GPT2"
      [] l = GPT3A \/ l = GPT3B -> "timer::GPT3"
      [] l = 11 -> "radio::RFC(CmdAck)"
      [] l = 9 -> "radio::RFC(Cpe0)"
      [] l = 2 -> "radio::RFC(Cpe1)"

HandledLines ==
    {GPIO, AON_RTC, UART0, GPT0A, GPT0B, GPT1A, GPT1B, GPT2A, GPT2B, GPT3A,
     GPT3B, 11, 9, 2}

\* what serving line l records after the NVIC yielded it
ServiceOf(l) ==
    IF l = AON_PROG
    THEN << W("clear_pending", l), W("enable", l) >>
    ELSE << W(BoundHandler(l), 0), W("clear_pending", l), W("enable", l) >>

IsYield(e) == e.reg = "next_pending"

\* C10: service_pending_interrupts serves the lines in the order the NVIC
\* yields them: after each yielded line that has a binding come one call of the
\* bound handler (none for AON_PROG), the clear of that line's pending bit and
\* the enable of that line, and only then the next yield.
C10_ServiceInYieldOrder ==
    op = "service" =>
        /\ Len(log) > 0 => IsYield(log[1])
        /\ \A i \in 1..Len(log) :
              (IsYield(log[i]) /\ log[i].val \in HandledLines \cup {AON_PROG}) =>
                  LET svc == ServiceOf(log[i].val) IN
                  /\ \A k \in 1..Len(svc) :
                        i + k <= Len(log) => log[i + k] = svc[k]
                  /\ i + Len(svc) + 1 <= Len(log) => IsYield(log[i + Len(svc) + 1])
                  /\ pc = "idle" => i + Len(svc) <= Len(log)

C10_Witness ==
    /\ op = "service"
    /\ pc = "idle"
    /\ log = << W("next_pending", GPT1A) >> \o ServiceOf(GPT1A)
             \o << W("next_pending", AON_PROG) >> \o ServiceOf(AON_PROG)
    /\ Len(log) = 7
    /\ pending = {}

IsUnbound(l) == l \notin HandledLines \cup {AON_PROG}

\* C11: when the NVIC yields a line without a binding the call halts: nothing
\* is recorded after that yield (no handler, no clear, no enable, no further
\* yield), the line stays pending and is not enabled, and every line yielded
\* before it has been served in full.
C11_UnboundLineHalts ==
    op = "service" =>
        /\ \A i \in 1..Len(log) :
              (IsYield(log[i]) /\ IsUnbound(log[i].val)) =>
                  /\ i = Len(log)
                  /\ pc \in {"svc_dispatch", "halted"}
                  /\ log[i].val \in pending
                  /\ log[i].val \notin enabled
        /\ pc = "halted" =>
              /\ Len(log) > 0
              /\ IsYield(Last(log))
              /\ IsUnbound(Last(log).val)
              /\ \A i \in 1..(Len(log) - 1) :
                    IsYield(log[i]) => i + Len(ServiceOf(log[i].val)) < Len(log)

C11_Witness ==
    /\ op = "service"
    /\ pc = "halted"
    /\ Last(log) = W("next_pending", I2C)
    /\ I2C \in pending
    /\ I2C \notin enabled
    /\ pending \ {I2C} # {}

\* C12 as stated: a service call yields only lines that were pending when the
\* call started.
C12_OnlyLinesPendingAtCall ==
    op = "service" =>
        \A i \in 1..Len(log) : IsYield(log[i]) => log[i].val \in atcall

\* C12, amended: the call asks the NVIC again after every line and returns
\* only when the NVIC has no line pending, so a line raised while the call
\* runs and pending at a later query is served by that same call.
C12_ServesUntilNonePending ==
    [][(pc = "svc_next" /\ pc' = "idle") => pending = {}]_vars

C12_Witness ==
    /\ op = "service"
    /\ pc = "idle"
    /\ pending = {}
    /\ \E i \in 1..Len(log) :
          /\ IsYield(log[i])
          /\ log[i].val \notin atcall
          /\ i + Len(ServiceOf(log[i].val)) <= Len(log)

-----------------------------------------------------------------------------
(* Properties of the BLE advertiser *)

IsRadioCall(e) ==
    e.reg \in {"rfc.set_mode", "osc.request_switch_to_hf_xosc", "rfc.enable",
               "rfc.start_rat", "osc.perform_switch", "rfc.setup", "rfc.send"}
IsConfigureCall(e) == IsRadioCall(e) /\ e.reg # "rfc.send"
IsSend(e) == e.reg = "rfc.send"
RadioCalls == SelectSeq(log, IsRadioCall)
\* configure() found the radio core without a mode in this call
ColdBoot == \E i \in 1..Len(log) : log[i] = W("rfc.current_mode", 0)
InBle == op \in {"transmit", "advertise"}
\* byte k of the caller's buffer, counted from 0
BufByte(k) == req.buf[k + 1]
SupportedPdu == BufByte(0) \in {0, 1, 2}
MappedCommand ==
    CASE BufByte(0) = 0 -> 6147
      [] BufByte(0) = 1 -> 6148
      [] BufByte(0) = 2 -> 6149

ColdBootCalls ==
    << W("rfc.set_mode", 1), W("osc.request_switch_to_hf_xosc", 0),
       W("rfc.enable", 0), W("rfc.start_rat", 0), W("osc.perform_switch", 0),
       W("rfc.setup", AddrOf("BLE_OVERRIDES")) >>

\* the command and the parameter block as transmit_advertisement hands them
\* to send
CommandAsClaimed ==
    /\ ble.packet.command_no = MappedCommand
    /\ ble.packet.status = 0
    /\ ble.packet.channel = 37
    /\ BitAnd(ble.packet.condition, 15) = 1
    /\ ble.packet.params = AddrOf("BLE_PARAMS_BUF")
    /\ ble.params.adv_len = req.len - 8
    /\ ble.params.adv_data = AddrOf("BLE_ADV_PAYLOAD")
    /\ \A i \in 1..(req.len - 8) : ble.adv_payload[i] = BufByte(8 + i - 1)
    /\ ble.params.device_address = AddrOf("DEVICE_ADDRESS")
    /\ \A i \in 1..6 : ble.device_address[i] = BufByte(2 + i - 1)
    /\ ble.params.end_trigger = 1
    /\ ble.params.end_time = 0

\* C13: on a cold boot transmit_advertisement on channel 37 calls set_mode,
\* the oscillator request, enable, start_rat, the oscillator switch and
\* setup(address of the override table) in this order before send, calls send
\* once, and at the send the command and the parameter block hold the mapped
\* command number, status 0, channel 37, rule 1, the pointers to the regions,
\* the length len - 8, the payload buf[8..len], the address buf[2..8],
\* end_trigger 1 and end_time 0.
C13_ColdBootAdvertise ==
    (op = "transmit" /\ ColdBoot /\ req.channel = "AdvertisingChannel37") =>
        /\ pc \in {"adv_channel", "adv_send"} => RadioCalls = ColdBootCalls
        /\ pc = "adv_send" => CommandAsClaimed
        /\ pc = "idle" =>
              RadioCalls = Append(ColdBootCalls, W("rfc.send", AddrOf("PACKET_BUF")))
        /\ pc = "halted" =>
              RadioCalls = Append(ColdBootCalls, W("rfc.send", AddrOf("PACKET_BUF")))

C13_Witness ==
    /\ op = "transmit"
    /\ pc = "idle"
    /\ ColdBoot
    /\ req.channel = "AdvertisingChannel37"
    /\ req.len = 30
    /\ BufByte(0) = 0
    /\ ble.packet.command_no = 6147
    /\ ble.params.adv_len = 22
    /\ Count(log, IsSend) = 1
    /\ Last(log) = W("rfc.send.result", 0)

\* configure() found the radio core in BLE mode in this call
WarmCall == \E i \in 1..Len(log) : log[i] = W("rfc.current_mode", 1)

\* C14: configure() is idempotent: a call of advertise that finds the mode
\* BLE makes none of the configuration calls and one send; over the calls
\* made since the start (mode None) the configuration calls happen once and
\* send once per call of advertise.
C14_ConfigureOnce ==
    /\ (InBle /\ WarmCall) =>
          /\ Count(log, IsConfigureCall) = 0
          /\ pc = "idle" =>
                (Count(log, IsSend) = 1 /\ Last(log) = W("rfc.send.result", 0))
    /\ ble.confs <= 1
    /\ (ble.confs = 1) <=> (ble.mode = "BLE")
    /\ pc = "idle" =>
          /\ ble.sends = ble.calls
          /\ ble.calls >= 1 => ble.confs = 1

C14_Witness ==
    /\ op = "advertise"
    /\ pc = "idle"
    /\ WarmCall
    /\ ble.calls = 2
    /\ ble.sends = 2
    /\ ble.confs = 1
    /\ Count(log, IsSend) = 1

IsRegionWrite(e) == e.reg \in {"BLE_PARAMS_BUF", "PACKET_BUF"}

\* C15: while a command is outstanding no operation of the advertiser writes
\* the parameter region or the packet region.  (The flag changes only at the
\* send that ends a call and at the completion callback between calls, so
\* during a call it tells whether a command was outstanding throughout.)
C15_NoRegionWriteWhileOutstanding ==
    (InBle /\ pc # "idle" /\ ble.outstanding) => Count(log, IsRegionWrite) = 0

\* replace_adv_payload_buffer has returned to transmit_advertisement
ReplaceReturned == op = "transmit" /\ pc = "adv_configure"

\* C16: after replace_adv_payload the whitening byte of the command is 0xA3:
\* the override flag in bit 0, set, and the seed 0x51 in bits 1..7.
C16_WhiteningByte ==
    ReplaceReturned =>
        /\ ble.packet.whitening = 163
        /\ 0 \in BitsOf(ble.packet.whitening)
        /\ ble.packet.whitening \div 2 = 81

\* C17: after replace_adv_payload(buf, len) command_no is 0x1803 for
\* buf[0] = 0, 0x1804 for buf[0] = 1 and 0x1805 for buf[0] = 2, whatever the
\* other bytes of buf and the earlier contents of the regions.
C17_CommandNumber ==
    ReplaceReturned =>
        /\ SupportedPdu
        /\ ble.packet.command_no = MappedCommand

C17_Witness ==
    /\ ReplaceReturned
    /\ ble.calls = 2
    /\ ble.outstanding
    /\ BufByte(0) = 1
    /\ ble.packet.command_no = 6148

\* the command step of replace_adv_payload_buffer has been taken
PastCommandStep ==
    /\ op = "transmit"
    /\ pc # "ble_command"
    /\ Count(log, IsRegionWrite) >= 3

\* C18: the PDU type is the lower nibble of byte 0: a byte 0 whose lower
\* nibble is 0, 1 or 2 selects the command of that nibble whatever its upper
\* nibble.
C18_PduTypeIsLowerNibble ==
    (PastCommandStep /\ (BufByte(0) % 16) \in {0, 1, 2}) =>
        ble.packet.command_no =
            (CASE BufByte(0) % 16 = 0 -> 6147
               [] BufByte(0) % 16 = 1 -> 6148
               [] BufByte(0) % 16 = 2 -> 6149)

\* the call halted inside replace_adv_payload_buffer: configure() was not
\* reached
HaltedInReplace ==
    /\ op = "transmit"
    /\ pc = "halted"
    /\ \A i \in 1..Len(log) : log[i].reg # "rfc.current_mode"

LenInRange == 8 <= req.len /\ req.len <= 72

\* C19: for 8 <= len <= 72 and a supported PDU type, after
\* replace_adv_payload(buf, len) the address region is buf[2..8], the first
\* len - 8 bytes of the payload region are buf[8..len], adv_len is len - 8,
\* the parameter fields other than device_address, adv_len, adv_data,
\* end_trigger and end_time are zero and the buffer is the caller's buffer,
\* unchanged; and the call does return when buf holds len bytes.
C19_PayloadExtraction ==
    /\ (ReplaceReturned /\ LenInRange /\ SupportedPdu) =>
          /\ \A i \in 1..6 : ble.device_address[i] = BufByte(2 + i - 1)
          /\ \A i \in 1..(req.len - 8) : ble.adv_payload[i] = BufByte(8 + i - 1)
          /\ ble.adv_len = req.len - 8
          /\ ble.params.adv_len = req.len - 8
          /\ ble.params.rx_queue = 0
          /\ ble.params.rx_config = 0
          /\ ble.params.adv_config = 0
          /\ ble.params.scan_rsp_len = 0
          /\ ble.params.scan_rsp_data = 0
          /\ ble.params.white_list = 0
          /\ ble.params.dummy0 = 0
          /\ ble.params.dummy1 = 0
          /\ \E seed \in Seeds : req.buf = Buf(BufByte(0), seed, Len(req.buf))
    /\ ReplaceReturned => (LenInRange /\ SupportedPdu /\ req.len <= Len(req.buf))
    /\ HaltedInReplace => ~(LenInRange /\ SupportedPdu /\ req.len <= Len(req.buf))

C19_Witness ==
    /\ ReplaceReturned
    /\ ble.calls = 2
    /\ req.len = 72
    /\ Len(req.buf) = 80
    /\ ble.adv_len = 64
    /\ ble.adv_payload[64] = BufByte(71)
    /\ ble.adv_payload[64] # 0

AdvertisingChannel ==
    req.channel \in {"AdvertisingChannel37", "AdvertisingChannel38",
                     "AdvertisingChannel39"}

\* the entries of the log after configure() asked for the mode
AfterModeQuery ==
    LET q == CHOOSE i \in 1..Len(log) : log[i].reg = "rfc.current_mode"
    IN  SubSeq(log, q + 1, Len(log))

\* C20: a fatal condition halts: with buf[0] outside {0, 1, 2}
\* transmit_advertisement never reaches configure or send and does not return;
\* with a channel that is no advertising channel advertise writes neither the
\* status nor the channel of the command, calls no send and does not return;
\* a send that returns a status other than ok leaves the call halted.
C20_FatalConditionsHalt ==
    /\ (op = "transmit" /\ Len(req.buf) > 0 /\ ~SupportedPdu) =>
          /\ pc \in {"ble_addr", "ble_payload", "ble_zero", "ble_params",
                     "ble_command", "halted"}
          /\ Count(log, IsRadioCall) = 0
          /\ \A i \in 1..Len(log) : log[i].reg # "rfc.current_mode"
    /\ (InBle /\ ~AdvertisingChannel) =>
          /\ pc \notin {"adv_send", "idle"}
          /\ Count(log, IsSend) = 0
          /\ (\E i \in 1..Len(log) : log[i].reg = "rfc.current_mode") =>
                /\ pc \in {"adv_channel", "halted"}
                /\ Count(AfterModeQuery, IsRegionWrite) = 0
    /\ (InBle /\ \E i \in 1..Len(log) : log[i].reg = "rfc.send.result") =>
          /\ Last(log).reg = "rfc.send.result"
          /\ Last(log).val # 0 => pc = "halted"
          /\ Last(log).val = 0 => pc = "idle"

C20_Witness ==
    /\ op = "transmit"
    /\ pc = "halted"
    /\ req.channel = "DataChannel0"
    /\ SupportedPdu
    /\ Count(log, IsConfigureCall) = 6
    /\ Count(log, IsSend) = 0
    /\ ble.packet.channel = 0

-----------------------------------------------------------------------------
(* Properties across the subsystems *)

\* C21: when lowest_sleep_mode() returns a value outside {0, 1, 2}, sleep()
\* halts at once: no hook call, no register write and no wait-for-interrupt
\* is recorded, the registers and the gateways are as before the call, and
\* the halted thread makes no further step.
C21_OutOfRangeDepthHalts ==
    [][/\ (pc = "idle" /\ pc' # "idle" /\ op' = "sleep"
              /\ lowest \notin {0, 1, 2}) =>
             /\ pc' = "halted"
             /\ log' = <<>>
             /\ regs' = regs
             /\ gw' = gw
       /\ (pc = "idle" /\ pc' # "idle" /\ op' = "sleep"
              /\ lowest \in {0, 1, 2}) =>
             pc' # "halted"
       /\ pc = "halted" => (pc' = "halted" /\ log' = log /\ gw' = gw)]_vars

C21_Witness ==
    /\ op = "sleep"
    /\ pc = "halted"
    /\ lowest = 3
    /\ log = <<>>
    /\ sleep_mode = NoMode

PowerDownRegs == << "AUX_CLK", "AUX_CFG", "AUX_CTL", "PWR_OFF_REQ", "MCU_BUS_CTL" >>
PowerDownVals == << 0, 0, 0, 1, 1 >>

\* the writes of power_down so far are the claimed ones in the claimed order,
\* none follows a read, and the call is back only after a read with bit 1
\* clear that no read with bit 1 clear precedes
PowerDownOrder ==
    op = "power_down" =>
        /\ Len(Writes(log)) <= 5
        /\ \A i \in 1..Len(Writes(log)) :
              /\ Writes(log)[i].reg = PowerDownRegs[i]
              /\ i > 1 => Writes(log)[i].val = PowerDownVals[i]
        /\ \A i \in 1..Len(log) : \A j \in 1..Len(log) :
              (i < j /\ IsRead(log[i])) => IsPwrStatRead(log[j])
        /\ pc = "pd_wait" =>
              /\ Len(Writes(log)) = 5
              /\ \A i \in 1..Len(log) : IsRead(log[i]) => ReadsAuxOn(log[i])
        /\ pc = "idle" =>
              /\ Len(Writes(log)) = 5
              /\ IsPwrStatRead(Last(log))
              /\ ~ReadsAuxOn(Last(log))
              /\ \A i \in 1..(Len(log) - 1) :
                    IsRead(log[i]) => ReadsAuxOn(log[i])

\* C22: power_down writes AUX_CLK with bits 11 and 12 (mask 0x1800) cleared
\* and the other bits kept, then AUX_CFG<-0, AUX_CTL<-0, PWR_OFF_REQ<-1,
\* MCU_BUS_CTL<-1, then only reads PWR_STAT; it returns at a read that has
\* bit 1 clear and at no other step, so it does not return while the hardware
\* keeps the bit set.
C22_PowerDownOrder ==
    [][/\ PowerDownOrder'
       /\ (op = "power_down" /\ Len(log) = 0 /\ Len(log') = 1) =>
             /\ log'[1].reg = "AUX_CLK"
             /\ BitsOf(log'[1].val) = BitsOf(regs.aux_clk) \ {11, 12}
             /\ regs'.aux_clk = log'[1].val
       /\ (op = "power_down" /\ pc # "idle" /\ pc' = "idle") =>
             /\ 1 \notin BitsOf(regs.pwr_stat)
             /\ pc = "pd_wait"]_vars

C22_Witness ==
    /\ op = "power_down"
    /\ pc = "idle"
    /\ Len(log) = 7
    /\ log[1] = W("AUX_CLK", 1)
    /\ ReadsAuxOn(log[6])
    /\ ~ReadsAuxOn(log[7])

\* C23: whenever advertise submits a command with send the RFC power domain
\* is enabled, also in an advertise that follows a deep-sleep cycle after an
\* earlier advertise, with the radio core still in mode BLE.
C23_RfcPoweredAtSend ==
    (InBle /\ pc = "adv_send") => gw.pd["RFC"]

\* the payload bytes this call copied, as recorded at the copy
CopiedBytes ==
    LET q == CHOOSE i \in 1..Len(log) : log[i].reg = "BLE_ADV_PAYLOAD"
    IN  log[q].val
BadLength == req.len < 8 \/ req.len > 72 \/ req.len > Len(req.buf)

\* C24: replace_adv_payload keeps its writes inside the 6-byte address region
\* and the 64-byte payload region and records no length other than the number
\* of payload bytes it copied: with len < 8, len > 72 or len greater than the
\* buffer's length the call halts before the length is recorded, before the
\* parameter and packet regions are written and before configure and send;
\* with 8 <= len <= 72 the recorded adv_len is len - 8, below 256.
C24_CopyStaysInRegions ==
    /\ Len(ble.device_address) = 6
    /\ Len(ble.adv_payload) = 64
    /\ \A i \in 1..64 : ble.adv_payload[i] \in 0..255
    /\ (op = "transmit" /\ BadLength) =>
          /\ pc \in {"ble_addr", "ble_payload", "halted"}
          /\ Count(log, IsRegionWrite) = 0
          /\ Count(log, IsRadioCall) = 0
          /\ \A i \in 1..Len(log) : log[i].reg # "rfc.current_mode"
          /\ (\E i \in 1..Len(log) : log[i].reg = "BLE_ADV_PAYLOAD") =>
                (pc = "halted" /\ CopiedBytes = 64 /\ req.len > 72)
    /\ (op = "transmit" /\ pc \notin {"ble_addr", "ble_payload", "halted"}) =>
          /\ ~BadLength
          /\ ble.adv_len = req.len - 8
          /\ ble.adv_len = CopiedBytes
          /\ ble.adv_len < 256

C24_Witness ==
    /\ op = "transmit"
    /\ pc = "halted"
    /\ req.len = 73
    /\ Len(req.buf) = 80
    /\ CopiedBytes = 64
    /\ ble.adv_payload[64] = BufByte(71)
    /\ ble.adv_len # 64

=============================================================================
